---- MODULE Spec2Model ----
(***************************************************************************)
(* Model of homeassistant/components/playlist_player.py: the registry of   *)
(* PlaylistPlayer objects (hass.data[DATA_PLAYLIST_PLAYERS]), the two      *)
(* handlers registered by async_setup (the play_media service and the      *)
(* state_changed listener) and the methods of PlaylistPlayer.              *)
(*                                                                         *)
(* Every handler runs to completion (the coroutines never suspend: the     *)
(* service call is handed to hass.async_add_job), so one handler           *)
(* invocation is one step.  Strings are sequences of characters, time is   *)
(* counted in whole seconds.                                               *)
(***************************************************************************)
EXTENDS Integers, Sequences, FiniteSets, TLC

(***************************************************************************)
(* Bounds of the model.                                                    *)
(***************************************************************************)
\* Spec: one entity, named once by a request
MaxStrLen == 2          \* longest media_content_id string of a request
MaxNow == 2             \* last value of the clock
MaxDuration == 3        \* largest media_duration an event reports
\* SpecTwice: one entity, named up to MaxEntityIds times by a request
MaxEntityIds == 2       \* longest entity_id list of a request
MaxStrLenTwice == 1
MaxNowTwice == 1
MaxDurationTwice == 0
\* SpecBoth: two entities, each named at most once by a request
MaxStrLenBoth == 1
MaxDurationBoth == 2
\* SpecEvents: one entity, named once by a request, every event recorded with
\* the player it found
MaxStrLenEvents == 1
MaxNowEvents == 1
MaxDurationEvents == 2

Entities == {"A", "B"}
Alphabet == {"a", ","}
ContentTypes == {"music", "video"}

(***************************************************************************)
(* Constants of the source.                                                *)
(***************************************************************************)
STATE_IDLE == "idle"
STATE_PAUSED == "paused"
STATE_PLAYING == "playing"
STATE_OFF == "off"
STATE_UNAVAILABLE == "unavailable"   \* stands for every kind the code does not name
ATTR_ENTITY_ID == "entity_id"
ATTR_MEDIA_CONTENT_ID == "media_content_id"
ATTR_MEDIA_CONTENT_TYPE == "media_content_type"
ATTR_MEDIA_DURATION == "media_duration"
ATTR_MEDIA_POSITION == "media_position"
TOLERANCE == 2
None == [type |-> "NoneType"]
OK == "ok"

VARIABLES
    players,    \* hass.data[DATA_PLAYLIST_PLAYERS]: entity_id -> PlaylistPlayer
    now,        \* time.time()
    jobs,       \* service calls handed to hass.async_add_job by the last handler
    calls,      \* methods of PlaylistPlayer the last handler invoked, in order
    raised,     \* exception that ended the last handler, or OK
    last,       \* the last handler invocation: which one, for whom, on what
                \*   (again: the entities it named whose player had been removed)
    requested,  \* history: per entity, the media_ids of its most recent async_play
    sent,       \* history: per entity, the content ids dispatched since that async_play
    sentCall,   \* history: per entity, the content ids dispatched since the most
                \*   recent play_media call that named it
    obs,        \* history: per entity, what its events since its last play amount to
    found       \* history: the last state_changed event: its new_state, the time
                \*   and the player it found (None if the entity had none)

vars == <<players, now, jobs, calls, raised, last, requested, sent, sentCall, obs, found>>

(***************************************************************************)
(* Helpers for Python values.                                              *)
(***************************************************************************)
\* dict.get(key, default)
Get(d, key, default) == IF key \in DOMAIN d THEN d[key] ELSE default

\* del d[key] for a key that is present
Del(d, key) == [k \in (DOMAIN d) \ {key} |-> d[k]]

\* d[key] = value
Put(d, key, value) == [k \in (DOMAIN d) \cup {key} |-> IF k = key THEN value ELSE d[k]]

\* abs()
abs(x) == IF x < 0 THEN -x ELSE x

\* str.split(',')
RECURSIVE split(_)
split(s) ==
    IF s = <<>> THEN << <<>> >>
    ELSE IF Head(s) = "," THEN << <<>> >> \o split(Tail(s))
    ELSE LET r == split(Tail(s)) IN << <<Head(s)>> \o Head(r) >> \o Tail(r)

(***************************************************************************)
(* PlaylistPlayer.  A method takes the world w (registry, jobs handed      *)
(* off, call trace, raised exception, histories) and the entity_id of      *)
(* self, and returns the world after the call.                             *)
(***************************************************************************)
\* variant: the start time is taken from the clock
PlaylistPlayer__init__clock(entity_id) ==
    [entity_id |-> entity_id, start_time |-> now, time_left |-> 0, time_past |-> 0]

PlaylistPlayer__init__(entity_id) ==
    [entity_id |-> entity_id, start_time |-> 0, time_left |-> 0, time_past |-> 0]

Traced(w, method, entity_id) ==
    [w EXCEPT !.calls = Append(@, [method |-> method, entity_id |-> entity_id])]

\* variant: the registry keeps the entry
PlaylistPlayer_async_stop_keep(w0, e) ==
    Traced(w0, "async_stop", e)

\* variant: the registry is cleared
PlaylistPlayer_async_stop_clear(w0, e) ==
    [Traced(w0, "async_stop", e) EXCEPT !.players = <<>>]

\* variant: self.entity_id = None comes before the del
PlaylistPlayer_async_stop_raise(w0, e) ==
    [Traced(w0, "async_stop", e) EXCEPT !.raised = "KeyError"]

PlaylistPlayer_async_stop(w0, e) ==
    LET w == Traced(w0, "async_stop", e) IN
    IF e \in DOMAIN w.players
    THEN [w EXCEPT !.players = Del(w.players, e)]
    ELSE [w EXCEPT !.raised = "KeyError"]

\* hass.async_add_job(hass.services.async_call(MEDIA_PLAYER_DOMAIN,
\* SERVICE_PLAY_MEDIA, data)): the call is handed off and not awaited
Dispatch(w, data) ==
    [w EXCEPT !.jobs = Append(@, data),
              !.sent[data[ATTR_ENTITY_ID]] = Append(@, data[ATTR_MEDIA_CONTENT_ID]),
              !.sentCall[data[ATTR_ENTITY_ID]] = Append(@, data[ATTR_MEDIA_CONTENT_ID])]

\* variant: pop() instead of pop(0)
PlaylistPlayer_async_media_next_track_pop_last(w0, e) ==
    LET w == Traced(w0, "async_media_next_track", e)
        self == w.players[e]
        n == Len(self.media_ids)
    IN
    IF n > 0
    THEN LET data == Put(self.data, ATTR_MEDIA_CONTENT_ID, self.media_ids[n])
         IN Dispatch([w EXCEPT !.players[e].data = data,
                               !.players[e].media_ids = SubSeq(self.media_ids, 1, n - 1)],
                     data)
    ELSE PlaylistPlayer_async_stop(w, e)

\* variant: media_ids[0] instead of pop(0)
PlaylistPlayer_async_media_next_track_no_pop(w0, e) ==
    LET w == Traced(w0, "async_media_next_track", e)
        self == w.players[e]
    IN
    IF Len(self.media_ids) > 0
    THEN LET data == Put(self.data, ATTR_MEDIA_CONTENT_ID, Head(self.media_ids))
         IN Dispatch([w EXCEPT !.players[e].data = data], data)
    ELSE PlaylistPlayer_async_stop(w, e)

\* variant: an exhausted list stops the player twice
PlaylistPlayer_async_media_next_track_stop_twice(w0, e) ==
    LET w == Traced(w0, "async_media_next_track", e)
        self == w.players[e]
    IN
    IF Len(self.media_ids) > 0
    THEN LET data == Put(self.data, ATTR_MEDIA_CONTENT_ID, Head(self.media_ids))
         IN Dispatch([w EXCEPT !.players[e].data = data,
                               !.players[e].media_ids = Tail(self.media_ids)], data)
    ELSE PlaylistPlayer_async_stop(PlaylistPlayer_async_stop(w, e), e)

PlaylistPlayer_async_media_next_track(w0, e) ==
    LET w == Traced(w0, "async_media_next_track", e)
        self == w.players[e]
    IN
    IF Len(self.media_ids) > 0
    THEN LET data == Put(self.data, ATTR_MEDIA_CONTENT_ID, Head(self.media_ids))
         IN Dispatch([w EXCEPT !.players[e].data = data,
                               !.players[e].media_ids = Tail(self.media_ids)], data)
    ELSE PlaylistPlayer_async_stop(w, e)

\* variant: the new ids are added to the pending ones
PlaylistPlayer_async_play_extend(w0, e, call_data) ==
    LET w == Traced(w0, "async_play", e)
        self == w.players[e]
        data == Put(call_data, ATTR_ENTITY_ID, self.entity_id)
        media_ids == split(call_data[ATTR_MEDIA_CONTENT_ID])
        self1 == [k \in (DOMAIN self) \cup {"data", "media_ids", "state"} |->
                    IF k = "data" THEN data
                    ELSE IF k = "media_ids" THEN Get(self, "media_ids", <<>>) \o media_ids
                    ELSE IF k = "state" THEN STATE_IDLE
                    ELSE self[k]]
    IN PlaylistPlayer_async_media_next_track(
           [w EXCEPT !.players[e] = self1,
                     !.requested[e] = media_ids,
                     !.sent[e] = <<>>], e)

\* variant: the command keeps the first entity_id of the request
PlaylistPlayer_async_play_first(w0, e, call_data) ==
    LET w == Traced(w0, "async_play", e)
        self == w.players[e]
        data == Put(call_data, ATTR_ENTITY_ID, Head(call_data[ATTR_ENTITY_ID]))
        media_ids == split(call_data[ATTR_MEDIA_CONTENT_ID])
        self1 == [k \in (DOMAIN self) \cup {"data", "media_ids", "state"} |->
                    IF k = "data" THEN data
                    ELSE IF k = "media_ids" THEN media_ids
                    ELSE IF k = "state" THEN STATE_IDLE
                    ELSE self[k]]
    IN PlaylistPlayer_async_media_next_track(
           [w EXCEPT !.players[e] = self1,
                     !.requested[e] = media_ids,
                     !.sent[e] = <<>>], e)

\* variant: a player that has a state keeps it
PlaylistPlayer_async_play_keep_state(w0, e, call_data) ==
    LET w == Traced(w0, "async_play", e)
        self == w.players[e]
        data == Put(call_data, ATTR_ENTITY_ID, self.entity_id)
        media_ids == split(call_data[ATTR_MEDIA_CONTENT_ID])
        self1 == [k \in (DOMAIN self) \cup {"data", "media_ids", "state"} |->
                    IF k = "data" THEN data
                    ELSE IF k = "media_ids" THEN media_ids
                    ELSE IF k = "state" THEN Get(self, "state", STATE_IDLE)
                    ELSE self[k]]
    IN PlaylistPlayer_async_media_next_track(
           [w EXCEPT !.players[e] = self1,
                     !.requested[e] = media_ids,
                     !.sent[e] = <<>>], e)

PlaylistPlayer_async_play(w0, e, call_data) ==
    LET w == Traced(w0, "async_play", e)
        self == w.players[e]
        data == Put(call_data, ATTR_ENTITY_ID, self.entity_id)
        media_ids == split(call_data[ATTR_MEDIA_CONTENT_ID])
        self1 == [k \in (DOMAIN self) \cup {"data", "media_ids", "state"} |->
                    IF k = "data" THEN data
                    ELSE IF k = "media_ids" THEN media_ids
                    ELSE IF k = "state" THEN STATE_IDLE
                    ELSE self[k]]
    IN PlaylistPlayer_async_media_next_track(
           [w EXCEPT !.players[e] = self1,
                     !.requested[e] = media_ids,
                     !.sent[e] = <<>>], e)

\* variant: the state is not recorded
SetState_skip(w, e, state) == w

\* self.state = new_state.state, which is lost when self was removed
SetState(w, e, state) ==
    IF e \in DOMAIN w.players THEN [w EXCEPT !.players[e].state = state] ELSE w

\* variant: <= 2
VideoEnded_inclusive(time_past, time_left) == abs(time_past - time_left) <= TOLERANCE

\* abs(self.time_past - self.time_left) < 2
VideoEnded(time_past, time_left) == abs(time_past - time_left) < TOLERANCE

\* variant: the accumulated time is kept
Started_keep_past(self, t, new_time_left) ==
    [self EXCEPT !.start_time = t, !.time_left = new_time_left]

\* idle => playing, or updated duration, or updated position
Started(self, t, new_time_left) ==
    [self EXCEPT !.start_time = t, !.time_left = new_time_left, !.time_past = 0]

\* variant: the start time is kept
Continued_stale(self, t) == self

\* variant: the accumulated time is dropped
Continued_reset(self, t) == [self EXCEPT !.start_time = t, !.time_past = 0]

\* paused => playing = continue after pause
Continued(self, t) == [self EXCEPT !.start_time = t]

\* playing => paused, playing => idle: self.time_past += time.time() - self.start_time
Accumulated(self, t) == [self EXCEPT !.time_past = @ + (t - self.start_time)]

\* variant: paused => idle checks if the video ended, as playing => idle does
PlaylistPlayer_async_state_changed_paused_ends(w0, e, new_state, t) ==
    LET w == Traced(w0, "async_state_changed", e)
        self == w.players[e]
    IN
    IF new_state = None THEN [w EXCEPT !.raised = "AttributeError"]
    ELSE IF new_state.state = STATE_PLAYING THEN
        LET duration == Get(new_state.attributes, ATTR_MEDIA_DURATION, 0)
            position == Get(new_state.attributes, ATTR_MEDIA_POSITION, 0)
            new_time_left == duration - position
        IN
        IF self.state = STATE_IDLE \/ new_time_left # self.time_left
        THEN SetState([w EXCEPT !.players[e] = Started(self, t, new_time_left)],
                      e, new_state.state)
        ELSE IF self.state = STATE_PAUSED
        THEN SetState([w EXCEPT !.players[e] = Continued(self, t)], e, new_state.state)
        ELSE SetState(w, e, new_state.state)
    ELSE IF new_state.state = STATE_PAUSED THEN
        IF self.state = STATE_PLAYING
        THEN SetState([w EXCEPT !.players[e] = Accumulated(self, t)], e, new_state.state)
        ELSE SetState(w, e, new_state.state)
    ELSE IF new_state.state = STATE_IDLE THEN
        IF self.state = STATE_PLAYING
        THEN LET self1 == Accumulated(self, t)
                 w1 == [w EXCEPT !.players[e] = self1]
             IN IF VideoEnded(self1.time_past, self1.time_left)
                THEN SetState(PlaylistPlayer_async_media_next_track(w1, e),
                              e, new_state.state)
                ELSE SetState(PlaylistPlayer_async_stop(w1, e), e, new_state.state)
        ELSE IF self.state = STATE_PAUSED
        THEN IF VideoEnded(self.time_past, self.time_left)
             THEN SetState(PlaylistPlayer_async_media_next_track(w, e),
                           e, new_state.state)
             ELSE SetState(PlaylistPlayer_async_stop(w, e), e, new_state.state)
        ELSE SetState(w, e, new_state.state)
    ELSE IF new_state.state = STATE_OFF
    THEN SetState(PlaylistPlayer_async_stop(w, e), e, new_state.state)
    ELSE PlaylistPlayer_async_stop(w, e)

PlaylistPlayer_async_state_changed(w0, e, new_state, t) ==
    LET w == Traced(w0, "async_state_changed", e)
        self == w.players[e]
    IN
    IF new_state = None THEN [w EXCEPT !.raised = "AttributeError"]
    ELSE IF new_state.state = STATE_PLAYING THEN
        LET duration == Get(new_state.attributes, ATTR_MEDIA_DURATION, 0)
            position == Get(new_state.attributes, ATTR_MEDIA_POSITION, 0)
            new_time_left == duration - position
        IN
        IF self.state = STATE_IDLE \/ new_time_left # self.time_left
        THEN SetState([w EXCEPT !.players[e] = Started(self, t, new_time_left)],
                      e, new_state.state)
        ELSE IF self.state = STATE_PAUSED
        THEN SetState([w EXCEPT !.players[e] = Continued(self, t)], e, new_state.state)
        ELSE SetState(w, e, new_state.state)
    ELSE IF new_state.state = STATE_PAUSED THEN
        IF self.state = STATE_PLAYING
        THEN SetState([w EXCEPT !.players[e] = Accumulated(self, t)], e, new_state.state)
        ELSE SetState(w, e, new_state.state)
    ELSE IF new_state.state = STATE_IDLE THEN
        IF self.state = STATE_PLAYING
        THEN LET self1 == Accumulated(self, t)
                 w1 == [w EXCEPT !.players[e] = self1]
             IN IF VideoEnded(self1.time_past, self1.time_left)
                THEN SetState(PlaylistPlayer_async_media_next_track(w1, e),
                              e, new_state.state)
                ELSE SetState(PlaylistPlayer_async_stop(w1, e), e, new_state.state)
        ELSE IF self.state = STATE_PAUSED
        THEN SetState(PlaylistPlayer_async_stop(w, e), e, new_state.state)
        ELSE SetState(w, e, new_state.state)
    ELSE IF new_state.state = STATE_OFF
    THEN SetState(PlaylistPlayer_async_stop(w, e), e, new_state.state)
    ELSE PlaylistPlayer_async_stop(w, e)

(***************************************************************************)
(* The handlers of async_setup.                                            *)
(***************************************************************************)
\* the world at the entry of a handler
Entry ==
    [players |-> players, jobs |-> <<>>, calls |-> <<>>, raised |-> OK,
     requested |-> requested, sent |-> sent, sentCall |-> sentCall]

\* the world at the exit of a handler
Exit(w) ==
    /\ players' = w.players
    /\ jobs' = w.jobs
    /\ calls' = w.calls
    /\ raised' = w.raised
    /\ requested' = w.requested
    /\ sent' = w.sent
    /\ sentCall' = w.sentCall

\* variant: every entity_id gets a new player
RECURSIVE PlayEach_fresh(_, _, _)
PlayEach_fresh(w, entity_ids, call_data) ==
    IF entity_ids = <<>> THEN w
    ELSE LET entity_id == Head(entity_ids)
             w1 == [Traced(w, "__init__", entity_id) EXCEPT !.players =
                        Put(w.players, entity_id, PlaylistPlayer__init__(entity_id))]
         IN PlayEach_fresh(PlaylistPlayer_async_play(w1, entity_id, call_data),
                           Tail(entity_ids), call_data)

\* for entity_id in call.data.get(ATTR_ENTITY_ID): ...
RECURSIVE PlayEach(_, _, _)
PlayEach(w, entity_ids, call_data) ==
    IF entity_ids = <<>> THEN w
    ELSE LET entity_id == Head(entity_ids)
             w1 == IF entity_id \notin DOMAIN w.players
                   THEN [Traced(w, "__init__", entity_id) EXCEPT !.players =
                            Put(w.players, entity_id, PlaylistPlayer__init__(entity_id))]
                   ELSE w
         IN PlayEach(PlaylistPlayer_async_play(w1, entity_id, call_data),
                     Tail(entity_ids), call_data)

Range(f) == {f[i] : i \in DOMAIN f}

\* variant: no check of the entity_id list
PlayMedia_unchecked(w, call_data) ==
    PlayEach([w EXCEPT !.sentCall = [e \in Entities |->
                  IF e \in Range(Get(call_data, ATTR_ENTITY_ID, <<>>)) THEN <<>> ELSE @[e]]],
             Get(call_data, ATTR_ENTITY_ID, <<>>), call_data)

PlayMedia(w, call_data) ==
    IF Get(call_data, ATTR_ENTITY_ID, <<>>) = <<>>
    THEN [w EXCEPT !.raised = "RuntimeError"]
    ELSE PlayEach([w EXCEPT !.sentCall = [e \in Entities |->
                        IF e \in Range(call_data[ATTR_ENTITY_ID]) THEN <<>> ELSE @[e]]],
                  call_data[ATTR_ENTITY_ID], call_data)

\* variant: registry.get(entity_id) and no check
StateChanged_unchecked(w, event_data, t) ==
    LET entity_id == event_data[ATTR_ENTITY_ID] IN
    IF entity_id \in DOMAIN w.players
    THEN PlaylistPlayer_async_state_changed(w, entity_id, event_data["new_state"], t)
    ELSE [w EXCEPT !.raised = "AttributeError"]

StateChanged(w, event_data, t) ==
    LET entity_id == event_data[ATTR_ENTITY_ID] IN
    IF entity_id \in DOMAIN w.players
    THEN PlaylistPlayer_async_state_changed(w, entity_id, event_data["new_state"], t)
    ELSE w

(***************************************************************************)
(* The inputs.                                                             *)
(***************************************************************************)
SeqsUpTo(S, n) == UNION {[1..k -> S] : k \in 0..n}

Strings(alphabet, n) == SeqsUpTo(alphabet, n)

\* entity_id lists that name no entity twice
Distinct(E) ==
    {ids \in SeqsUpTo(E, Cardinality(E)) :
        \A i, j \in DOMAIN ids : ids[i] = ids[j] => i = j}

\* the data of a play_media call; entity_id may be missing or empty
CallDatas(Lists, S, C) ==
    {[k \in {ATTR_MEDIA_CONTENT_ID, ATTR_MEDIA_CONTENT_TYPE} |->
        IF k = ATTR_MEDIA_CONTENT_ID THEN s ELSE c] :
        s \in S, c \in C}
    \cup
    {[k \in {ATTR_ENTITY_ID, ATTR_MEDIA_CONTENT_ID, ATTR_MEDIA_CONTENT_TYPE} |->
        IF k = ATTR_ENTITY_ID THEN ids
        ELSE IF k = ATTR_MEDIA_CONTENT_ID THEN s ELSE c] :
        ids \in Lists, s \in S, c \in C}

\* the attributes of a state: no timing, a duration (a player that reports no
\* position), or the duration of the longest item and a position in it
Attributes(maxd) ==
    {<<>>}
    \cup {[k \in {ATTR_MEDIA_DURATION} |-> d] : d \in 0..maxd}
    \cup {[k \in {ATTR_MEDIA_DURATION, ATTR_MEDIA_POSITION} |->
            IF k = ATTR_MEDIA_DURATION THEN maxd ELSE p] : p \in 0..maxd}

Kinds == {STATE_IDLE, STATE_PLAYING, STATE_PAUSED, STATE_OFF, STATE_UNAVAILABLE}

\* the new_state of an event; the attributes are read of a playing state only
NewStates(maxd) ==
    [state : {STATE_PLAYING}, attributes : Attributes(maxd)]
    \cup [state : Kinds \ {STATE_PLAYING}, attributes : {<<>>}]
    \cup {None}

(***************************************************************************)
(* The observer.  It follows, from the requests and the events alone, the  *)
(* two scenarios the timing properties are about:                          *)
(*   run    the number of tracks that ended naturally in a row since a     *)
(*          request for this entity alone: each an idle => playing that    *)
(*          reports L seconds left followed by a playing => idle within    *)
(*          TOLERANCE of L seconds later; -1 once anything else happened   *)
(*   phase  "started" after idle => playing at time t with L seconds left, *)
(*          "paused" after a following pause, a seconds later,             *)
(*          "resumed" after a following playing that reports L or L - a,   *)
(*          at time t, and after a following idle, b seconds later,        *)
(*          "ended" if a + b is within TOLERANCE of L, else "stopped"      *)
(***************************************************************************)
NoObs == [run |-> -1, phase |-> "none", L |-> 0, t |-> 0, a |-> 0]

ObsPlay(o, e, entity_ids) ==
    IF entity_ids = <<e>> THEN [NoObs EXCEPT !.run = 0]
    ELSE IF e \in Range(entity_ids) THEN NoObs
    ELSE o

ObsEvent(o, prev, new_state, t) ==
    IF new_state = None THEN NoObs
    ELSE IF new_state.state = STATE_PLAYING /\ prev = STATE_IDLE
    THEN [run |-> o.run, phase |-> "started", t |-> t, a |-> 0,
          L |-> Get(new_state.attributes, ATTR_MEDIA_DURATION, 0)
                - Get(new_state.attributes, ATTR_MEDIA_POSITION, 0)]
    ELSE IF new_state.state = STATE_PAUSED /\ o.phase = "started"
    THEN [NoObs EXCEPT !.phase = "paused", !.L = o.L, !.a = t - o.t]
    ELSE IF /\ new_state.state = STATE_PLAYING /\ o.phase = "paused"
            /\ Get(new_state.attributes, ATTR_MEDIA_DURATION, 0)
                - Get(new_state.attributes, ATTR_MEDIA_POSITION, 0) \in {o.L, o.L - o.a}
    THEN [NoObs EXCEPT !.phase = "resumed", !.L = o.L, !.a = o.a, !.t = t]
    ELSE IF new_state.state = STATE_IDLE /\ o.phase = "resumed"
    THEN [NoObs EXCEPT !.L = o.L, !.phase =
            IF abs((o.a + (t - o.t)) - o.L) < TOLERANCE THEN "ended" ELSE "stopped"]
    ELSE IF /\ new_state.state = STATE_IDLE /\ o.phase = "started" /\ o.run >= 0
            /\ abs((t - o.t) - o.L) < TOLERANCE
    THEN [NoObs EXCEPT !.run = o.run + 1]
    ELSE NoObs

(***************************************************************************)
(* The state machine.                                                      *)
(***************************************************************************)
Init ==
    /\ players = <<>>
    /\ now = 0
    /\ jobs = <<>>
    /\ calls = <<>>
    /\ raised = OK
    /\ last = [op |-> "async_setup"]
    /\ requested = [e \in Entities |-> <<>>]
    /\ sent = [e \in Entities |-> <<>>]
    /\ sentCall = [e \in Entities |-> <<>>]
    /\ obs = [e \in Entities |-> NoObs]
    /\ found = [player |-> None, new_state |-> None, t |-> 0]

\* time passes between two handlers
Tick(max) ==
    /\ now < max
    /\ now' = now + 1
    /\ UNCHANGED <<players, jobs, calls, raised, last, requested, sent, sentCall, obs,
                   found>>

async_play_media(call_data) ==
    /\ Exit(PlayMedia(Entry, call_data))
    /\ last' = [op |-> "async_play_media",
                entity_ids |-> Get(call_data, ATTR_ENTITY_ID, <<>>),
                media_content_type |-> call_data[ATTR_MEDIA_CONTENT_TYPE],
                again |-> {e \in Range(Get(call_data, ATTR_ENTITY_ID, <<>>)) :
                             e \notin DOMAIN players /\ requested[e] # <<>>}]
    /\ UNCHANGED now

async_state_changed(entity_id, new_state) ==
    /\ Exit(StateChanged(Entry, [entity_id |-> entity_id, new_state |-> new_state], now))
    /\ last' = [op |-> "async_state_changed",
                entity_id |-> entity_id,
                state |-> IF new_state = None THEN "None" ELSE new_state.state]
    /\ UNCHANGED now

\* the observer follows the handlers
ObservePlay(call_data) ==
    obs' = [e \in Entities |-> ObsPlay(obs[e], e, Get(call_data, ATTR_ENTITY_ID, <<>>))]

ObserveEvent(entity_id, new_state) ==
    obs' = [obs EXCEPT ![entity_id] =
                IF entity_id \in DOMAIN players
                THEN ObsEvent(@, players[entity_id].state, new_state, now)
                ELSE NoObs]

\* one entity, requests that name it once
Next ==
    \/ Tick(MaxNow)
    \/ \E call_data \in CallDatas(Distinct({"A"}), Strings(Alphabet, MaxStrLen), {"music"}) :
           async_play_media(call_data) /\ ObservePlay(call_data) /\ UNCHANGED found
    \/ \E entity_id \in {"A"}, new_state \in NewStates(MaxDuration) :
           async_state_changed(entity_id, new_state) /\ ObserveEvent(entity_id, new_state)
           /\ UNCHANGED found

Spec == Init /\ [][Next]_vars

\* the same with requests that name the entity more than once and differ in
\* their options
NextTwice ==
    \/ Tick(MaxNowTwice)
    \/ \E call_data \in CallDatas(SeqsUpTo({"A"}, MaxEntityIds), Strings(Alphabet, MaxStrLenTwice), ContentTypes) :
           async_play_media(call_data) /\ UNCHANGED <<obs, found>>
    \/ \E entity_id \in {"A"}, new_state \in NewStates(MaxDurationTwice) :
           async_state_changed(entity_id, new_state) /\ UNCHANGED <<obs, found>>

SpecTwice == Init /\ [][NextTwice]_vars

\* both entities under playlist control, all within one reading of the clock,
\* the media ids all empty
NextBoth ==
    \/ \E call_data \in CallDatas(Distinct(Entities), Strings({","}, MaxStrLenBoth), {"music"}) :
           async_play_media(call_data) /\ UNCHANGED <<obs, found>>
    \/ \E entity_id \in Entities, new_state \in NewStates(MaxDurationBoth) :
           async_state_changed(entity_id, new_state) /\ UNCHANGED <<obs, found>>

SpecBoth == Init /\ [][NextBoth]_vars

\* one entity, requests that name it once, the media ids all empty, and a
\* record of every event and the player it found
FoundBy(entity_id, new_state) ==
    found' = [player |-> IF entity_id \in DOMAIN players THEN players[entity_id] ELSE None,
              new_state |-> new_state,
              t |-> now]

NextEvents ==
    \/ Tick(MaxNowEvents)
    \/ \E call_data \in CallDatas(Distinct({"A"}), Strings({","}, MaxStrLenEvents), {"music"}) :
           async_play_media(call_data) /\ UNCHANGED <<obs, found>>
    \/ \E entity_id \in {"A"}, new_state \in NewStates(MaxDurationEvents) :
           async_state_changed(entity_id, new_state) /\ FoundBy(entity_id, new_state)
           /\ UNCHANGED obs

SpecEvents == Init /\ [][NextEvents]_vars

(***************************************************************************)
(* Properties.                                                             *)
(***************************************************************************)
\* a step that is one run of a handler (time passes between handlers only)
PlayStep ==
    now' = now /\ last'.op = "async_play_media"

EventStep(e, state) ==
    /\ now' = now
    /\ last'.op = "async_state_changed"
    /\ last'.entity_id = e
    /\ last'.state = state

Invoked(trace, method, e) ==
    \E i \in DOMAIN trace : trace[i] = [method |-> method, entity_id |-> e]

Trace(methods, e) ==
    [i \in DOMAIN methods |-> [method |-> methods[i], entity_id |-> e]]

LastEvent(e, state) ==
    last.op = "async_state_changed" /\ last.entity_id = e /\ last.state = state

IsPrefix(s, t) == Len(s) <= Len(t) /\ s = SubSeq(t, 1, Len(s))

\* C1: after a request for one entity, as long as every dispatch is followed
\* by idle => playing and then playing => idle within the tolerance, the
\* k-th natural end finds exactly the first k+1 ids of the list dispatched,
\* in order; the n-th one dispatches nothing and removes the player.
C1_NaturalRun ==
    \A e \in Entities :
        obs[e].run >= 0 =>
            LET n == Len(requested[e])
                k == obs[e].run
            IN /\ k <= n
               /\ sent[e] = SubSeq(requested[e], 1, IF k < n THEN k + 1 ELSE n)
               /\ (e \in DOMAIN players) <=> (k < n)
               /\ e \in DOMAIN players => players[e].media_ids =
                       SubSeq(requested[e], k + 2, n)
               /\ k = n => jobs = <<>>

C1_Witness ==
    \E e \in Entities :
        /\ obs[e].run = Len(requested[e])
        /\ Len(requested[e]) >= 2
        /\ requested[e][1] # requested[e][2]
        /\ sent[e] = requested[e]
        /\ e \notin DOMAIN players

\* C2: idle while playing adds now - start_time to time_past, then advances
\* iff |time_past - time_left| < 2, and otherwise stops: the player is
\* removed and nothing is dispatched.
C2_IdleWhilePlaying ==
    [][\A e \in DOMAIN players :
        (EventStep(e, STATE_IDLE) /\ players[e].state = STATE_PLAYING) =>
            LET time_past == players[e].time_past + (now - players[e].start_time)
                diff == time_past - players[e].time_left
            IN /\ e \in DOMAIN players' => players'[e].time_past = time_past
               /\ IF -2 < diff /\ diff < 2
                  THEN calls' = Trace(
                          IF players[e].media_ids # <<>>
                          THEN <<"async_state_changed", "async_media_next_track">>
                          ELSE <<"async_state_changed", "async_media_next_track",
                                 "async_stop">>, e)
                  ELSE /\ calls' = Trace(<<"async_state_changed", "async_stop">>, e)
                       /\ e \notin DOMAIN players'
                       /\ jobs' = <<>>
    ]_vars

C2_Witness ==
    \E e \in DOMAIN players :
        /\ LastEvent(e, STATE_IDLE)
        /\ Invoked(calls, "async_media_next_track", e)
        /\ players[e].time_past = players[e].time_left + 1

\* C3: a track that starts with L seconds left, is paused after a seconds,
\* resumed (the event reporting L or L - a seconds left) and goes idle b
\* seconds later advances iff |(a + b) - L| < 2, and stops otherwise.
C3_PauseResume ==
    [][\A e \in DOMAIN players :
        (obs[e].phase = "resumed" /\ EventStep(e, STATE_IDLE)) =>
            LET diff == (obs[e].a + (now - obs[e].t)) - obs[e].L
            IN IF -2 < diff /\ diff < 2
               THEN /\ Invoked(calls', "async_media_next_track", e)
                    /\ calls'[2].method = "async_media_next_track"
               ELSE calls' = Trace(<<"async_state_changed", "async_stop">>, e)
    ]_vars

C3_Witness ==
    \E e \in DOMAIN players :
        /\ obs[e].phase = "ended"
        /\ LastEvent(e, STATE_IDLE)
        /\ players[e].time_left # obs[e].L
        /\ jobs # <<>>

\* C4: off removes the player of a registered entity and dispatches nothing.
C4_Off ==
    [][\A e \in DOMAIN players :
        EventStep(e, STATE_OFF) => e \notin DOMAIN players' /\ jobs' = <<>>
    ]_vars

C4_Witness ==
    \E e \in Entities :
        /\ LastEvent(e, STATE_OFF)
        /\ calls = Trace(<<"async_state_changed", "async_stop">>, e)
        /\ e \notin DOMAIN players
        /\ sent[e] # requested[e]
        /\ obs[e].phase = "none"

\* C5: a play request without entity ids raises and does nothing else.
C5_EmptyEntityIds ==
    [][(PlayStep /\ last'.entity_ids = <<>>) =>
        /\ raised' = "RuntimeError"
        /\ players' = players
        /\ jobs' = <<>>
        /\ calls' = <<>>
    ]_vars

C5_Witness ==
    /\ last.op = "async_play_media"
    /\ last.entity_ids = <<>>
    /\ raised = "RuntimeError"
    /\ \E e \in DOMAIN players : players[e].media_ids # <<>>

\* C6: an event for an entity without a player changes nothing, dispatches
\* nothing and raises nothing, whatever its new state.
C6_NoPlayerNoOp ==
    [][\A e \in Entities \ DOMAIN players :
        (now' = now /\ last'.op = "async_state_changed" /\ last'.entity_id = e) =>
            /\ players' = players
            /\ jobs' = <<>>
            /\ calls' = <<>>
            /\ raised' = OK
            /\ requested' = requested
            /\ sent' = sent
    ]_vars

C6_Witness ==
    \E e \in Entities \ DOMAIN players :
        /\ LastEvent(e, STATE_PLAYING)
        /\ calls = <<>>
        /\ raised = OK
        /\ \E b \in DOMAIN players : players[b].state = STATE_PLAYING

\* C7 as stated: the pending list of a registered playing entity is not empty.
C7_PendingWhilePlaying ==
    \A e \in DOMAIN players :
        players[e].state = STATE_PLAYING => players[e].media_ids # <<>>

\* C7 as amended: the pending list of a registered playing entity is empty
\* exactly when every id of the requested list has been dispatched, that is
\* when the item playing is the last one.
C7_PendingUnlessLast ==
    \A e \in DOMAIN players :
        players[e].state = STATE_PLAYING =>
            (players[e].media_ids = <<>> <=> Len(sent[e]) = Len(requested[e]))

C7_Witness ==
    \E e \in DOMAIN players :
        /\ players[e].state = STATE_PLAYING
        /\ players[e].media_ids = <<>>
        /\ Len(requested[e]) >= 2
        /\ sent[e] = requested[e]

\* C8 as stated: the ids dispatched for a registered entity since the most
\* recent play request that named it, followed by its pending ids, are the
\* media ids of that request.
C8_SinceRequest ==
    \A e \in DOMAIN players :
        sentCall[e] \o players[e].media_ids = requested[e]

\* C8 as amended: the ids dispatched for a registered entity since the most
\* recent async_play of its player (one per occurrence of the entity in a
\* request), followed by its pending ids, are the media ids of that request.
C8_SincePlay ==
    \A e \in DOMAIN players :
        /\ sent[e] \o players[e].media_ids = requested[e]
        /\ IsPrefix(sent[e], requested[e])
        /\ Len(sent[e]) >= 1

C8_Witness ==
    \E e \in DOMAIN players :
        /\ Len(sent[e]) >= 2
        /\ sentCall[e] # sent[e]

\* C9: a play request for an entity whose player had been removed registers
\* a player with zero start_time, time_left and time_past, whose pending ids
\* and data are those of this request.
C9_FreshAfterRemoval ==
    [][\A e \in Entities :
        (PlayStep /\ e \in last'.again) =>
            /\ e \in DOMAIN players'
            /\ players'[e] =
                 [entity_id |-> e,
                  start_time |-> 0, time_left |-> 0, time_past |-> 0,
                  state |-> STATE_IDLE,
                  media_ids |-> Tail(requested'[e]),
                  data |-> [entity_id |-> e,
                            media_content_id |-> Head(requested'[e]),
                            media_content_type |-> last'.media_content_type]]
    ]_vars

C9_Witness ==
    /\ last.op = "async_play_media"
    /\ now >= 1
    /\ \E e \in last.again :
        /\ e \in DOMAIN players
        /\ players[e].start_time = 0
        /\ players[e].media_ids # <<>>
        /\ players[e].data[ATTR_MEDIA_CONTENT_TYPE] = "video"

\* C10: a handler run for entity a leaves every other entity's player and
\* history as they are and dispatches nothing to it, and what it does to a
\* and dispatches is the same as with a's player alone in the registry.
Alone(w, a) ==
    [w EXCEPT !.players = [x \in (DOMAIN w.players) \cap {a} |-> w.players[x]]]

Untouched(w, b) ==
    /\ (b \in DOMAIN w.players) = (b \in DOMAIN players)
    /\ b \in DOMAIN players => w.players[b] = players[b]
    /\ \A i \in DOMAIN w.jobs : w.jobs[i][ATTR_ENTITY_ID] # b
    /\ w.requested[b] = requested[b]
    /\ w.sent[b] = sent[b]

SameFor(a, full, alone) ==
    /\ Alone(full, a).players = alone.players
    /\ full.jobs = alone.jobs
    /\ full.calls = alone.calls
    /\ full.raised = alone.raised
    /\ full.sent[a] = alone.sent[a]

C10_NoInterference ==
    \A a \in Entities :
        /\ \A new_state \in NewStates(MaxDurationBoth) :
            LET event_data == [entity_id |-> a, new_state |-> new_state]
                full == StateChanged(Entry, event_data, now)
            IN /\ \A b \in Entities \ {a} : Untouched(full, b)
               /\ SameFor(a, full, StateChanged(Alone(Entry, a), event_data, now))
        /\ \A call_data \in CallDatas({<<a>>}, Strings({","}, MaxStrLenBoth), {"music"}) :
            LET full == PlayMedia(Entry, call_data)
            IN /\ \A b \in Entities \ {a} : Untouched(full, b)
               /\ SameFor(a, full, PlayMedia(Alone(Entry, a), call_data))

C10_Witness ==
    \E a \in DOMAIN players, b \in DOMAIN players :
        /\ a # b
        /\ LastEvent(a, STATE_IDLE)
        /\ jobs # <<>>
        /\ players[b].state = STATE_PLAYING
        /\ players[b].media_ids # <<>>

\* C11: the only handler run that raises is a play request without entity
\* ids; no other play request and no state_changed event ends in an error.
C11_OnlyEmptyRequestRaises ==
    raised # OK => (last.op = "async_play_media" /\ last.entity_ids = <<>>)

\* the last handler run was a state_changed event of this kind for e, and it
\* found e's player in state prev
Found(e, prev, kind) ==
    /\ last.op = "async_state_changed"
    /\ last.entity_id = e
    /\ found.player # None
    /\ found.player.state = prev
    /\ found.new_state # None
    /\ found.new_state.state = kind

\* duration - position of the event, each 0 by default
NewTimeLeft ==
    Get(found.new_state.attributes, ATTR_MEDIA_DURATION, 0)
        - Get(found.new_state.attributes, ATTR_MEDIA_POSITION, 0)

\* C12 as stated: a playing event that finds the player paused sets
\* start_time to the time of the event and keeps time_past and time_left,
\* whatever duration and position it carries.
C12_AlwaysResume ==
    \A e \in DOMAIN players :
        Found(e, STATE_PAUSED, STATE_PLAYING) =>
            /\ players[e].start_time = found.t
            /\ players[e].time_past = found.player.time_past
            /\ players[e].time_left = found.player.time_left

\* C12 as amended: a playing event that finds the player paused sets
\* start_time to the time of the event; it keeps time_past and time_left if
\* its duration - position equals time_left, and otherwise sets time_left to
\* duration - position and time_past to 0.
C12_ResumeUnlessRetimed ==
    \A e \in Entities :
        Found(e, STATE_PAUSED, STATE_PLAYING) =>
            /\ e \in DOMAIN players
            /\ players[e].state = STATE_PLAYING
            /\ players[e].start_time = found.t
            /\ IF NewTimeLeft = found.player.time_left
               THEN /\ players[e].time_past = found.player.time_past
                    /\ players[e].time_left = found.player.time_left
               ELSE /\ players[e].time_past = 0
                    /\ players[e].time_left = NewTimeLeft

C12_Witness ==
    \E e \in DOMAIN players :
        /\ Found(e, STATE_PAUSED, STATE_PLAYING)
        /\ NewTimeLeft = found.player.time_left
        /\ found.player.time_past > 0
        /\ players[e].time_past = found.player.time_past
        /\ players[e].start_time > found.player.start_time

\* C13: a playing event that finds the player idle, or playing with another
\* time_left than its duration - position, sets start_time to the time of
\* the event, time_left to duration - position and time_past to 0; one that
\* finds it playing with that time_left changes none of the three.  Either
\* way nothing is dispatched, the pending ids stay and so does the player.
C13_PlayingEvent ==
    \A e \in Entities, prev \in {STATE_IDLE, STATE_PLAYING} :
        Found(e, prev, STATE_PLAYING) =>
            /\ e \in DOMAIN players
            /\ jobs = <<>>
            /\ players[e].media_ids = found.player.media_ids
            /\ IF prev = STATE_IDLE \/ NewTimeLeft # found.player.time_left
               THEN /\ players[e].start_time = found.t
                    /\ players[e].time_left = NewTimeLeft
                    /\ players[e].time_past = 0
               ELSE /\ players[e].start_time = found.player.start_time
                    /\ players[e].time_left = found.player.time_left
                    /\ players[e].time_past = found.player.time_past

C13_Witness ==
    \E e \in DOMAIN players :
        /\ Found(e, STATE_PLAYING, STATE_PLAYING)
        /\ NewTimeLeft # found.player.time_left
        /\ found.player.time_past > 0
        /\ players[e].time_past = 0
        /\ players[e].media_ids # <<>>

\* C14: a paused event that finds the player idle or paused, and an idle
\* event that finds it idle, change the state of the player to the kind of
\* the event and nothing else of it, dispatch nothing and keep it registered.
C14_NoOpTransitions ==
    \A e \in Entities :
        \A tr \in {<<STATE_IDLE, STATE_PAUSED>>, <<STATE_PAUSED, STATE_PAUSED>>,
                   <<STATE_IDLE, STATE_IDLE>>} :
            Found(e, tr[1], tr[2]) =>
                /\ e \in DOMAIN players
                /\ players[e] = [found.player EXCEPT !.state = tr[2]]
                /\ jobs = <<>>
                /\ raised = OK

C14_Witness ==
    \E e \in DOMAIN players :
        /\ Found(e, STATE_IDLE, STATE_PAUSED)
        /\ players[e].state = STATE_PAUSED
        /\ players[e].time_past > 0
        /\ players[e].start_time = 0
        /\ found.t > 0

\* C15: an idle event that finds the player paused removes it and dispatches
\* nothing, also when time_past is within the tolerance of time_left and ids
\* are pending.
C15_IdleWhilePaused ==
    \A e \in Entities :
        Found(e, STATE_PAUSED, STATE_IDLE) =>
            /\ e \notin DOMAIN players
            /\ jobs = <<>>
            /\ calls = Trace(<<"async_state_changed", "async_stop">>, e)

C15_Witness ==
    \E e \in Entities \ DOMAIN players :
        /\ Found(e, STATE_PAUSED, STATE_IDLE)
        /\ found.player.time_past > 0
        /\ abs(found.player.time_past - found.player.time_left) < 2
        /\ found.player.media_ids # <<>>
        /\ jobs = <<>>

\* C16: an event of a kind other than idle, playing, paused and off removes
\* the player it finds, whatever its state, dispatches nothing and raises
\* nothing.
C16_UnsupportedKind ==
    \A e \in Entities, prev \in {STATE_IDLE, STATE_PLAYING, STATE_PAUSED} :
        Found(e, prev, STATE_UNAVAILABLE) =>
            /\ e \notin DOMAIN players
            /\ jobs = <<>>
            /\ raised = OK

C16_Witness ==
    \E e \in Entities \ DOMAIN players :
        /\ Found(e, STATE_PLAYING, STATE_UNAVAILABLE)
        /\ found.player.media_ids # <<>>
        /\ calls = Trace(<<"async_state_changed", "async_stop">>, e)
        /\ raised = OK

\* C17: a handler run calls async_stop at most once for an entity, and only
\* while the entity has its entry: the del of async_stop never raises
\* KeyError, also after requests that name the entity more than once.
Stops(trace, e) ==
    {i \in DOMAIN trace : trace[i] = [method |-> "async_stop", entity_id |-> e]}

C17_StopOnce ==
    /\ raised # "KeyError"
    /\ \A e \in Entities :
        /\ Cardinality(Stops(calls, e)) <= 1
        /\ Stops(calls, e) # {} => e \notin DOMAIN players

C17_Witness ==
    \E e \in Entities \ DOMAIN players :
        /\ calls = Trace(<<"async_state_changed", "async_media_next_track",
                           "async_stop">>, e)
        /\ raised = OK
        /\ Len(sentCall[e]) > Len(requested[e])

\* C18: a handler that dispatches an item for an entity leaves its player
\* registered and idle; from then on, as long as time passes without an event
\* or the events of the entity are idle ones, the player stays as it is,
\* pending ids included, and nothing more is dispatched for the entity.
C18_NoRetry ==
    [][/\ \A i \in DOMAIN jobs' :
            LET e == jobs'[i][ATTR_ENTITY_ID]
            IN e \in DOMAIN players' /\ players'[e].state = STATE_IDLE
       /\ \A e \in DOMAIN players :
            (players[e].state = STATE_IDLE /\ (now' # now \/ EventStep(e, STATE_IDLE))) =>
                /\ e \in DOMAIN players'
                /\ players'[e] = players[e]
                /\ sent'[e] = sent[e]
    ]_vars

C18_Witness ==
    \E e \in DOMAIN players :
        /\ Found(e, STATE_IDLE, STATE_IDLE)
        /\ found.t > 0
        /\ players[e] = found.player
        /\ players[e].media_ids # <<>>
        /\ Len(sent[e]) = 1
        /\ jobs = <<>>

\* the jobs of a handler that are for e
JobsFor(trace, e) ==
    SelectSeq(trace, LAMBDA data : data[ATTR_ENTITY_ID] = e)

Occurrences(e, entity_ids) ==
    Cardinality({i \in DOMAIN entity_ids : entity_ids[i] = e})

\* what a play request leaves of a player that was registered: its timing,
\* the state idle, as pending ids the new list without its first id
Reused(e) ==
    /\ e \in DOMAIN players'
    /\ players'[e].start_time = players[e].start_time
    /\ players'[e].time_left = players[e].time_left
    /\ players'[e].time_past = players[e].time_past
    /\ players'[e].state = STATE_IDLE
    /\ players'[e].media_ids = Tail(requested'[e])

\* an event dispatches for e nothing but the first of its pending ids
FromPending(e) ==
    (now' = now /\ last'.op = "async_state_changed") =>
        \/ JobsFor(jobs', e) = <<>>
        \/ /\ players[e].media_ids # <<>>
           /\ Len(JobsFor(jobs', e)) = 1
           /\ JobsFor(jobs', e)[1][ATTR_MEDIA_CONTENT_ID] = Head(players[e].media_ids)

\* C19 as stated: a play request that names an entity with a registered
\* player reuses the player, leaves it idle with the new list without its
\* first id pending, and dispatches exactly one command, with that first id;
\* later dispatches take the pending ids in order, never an id of an older
\* list.
C19_OneCommand ==
    [][\A e \in DOMAIN players :
        /\ (PlayStep /\ e \in Range(last'.entity_ids)) =>
              /\ Reused(e)
              /\ Len(JobsFor(jobs', e)) = 1
              /\ \A i \in DOMAIN JobsFor(jobs', e) : JobsFor(jobs', e)[i] =
                    Put(players'[e].data, ATTR_MEDIA_CONTENT_ID, Head(requested'[e]))
        /\ FromPending(e)
    ]_vars

\* C19 as amended: the same, with one command for each time the request
\* names the entity.
C19_OneCommandEach ==
    [][\A e \in DOMAIN players :
        /\ (PlayStep /\ e \in Range(last'.entity_ids)) =>
              /\ Reused(e)
              /\ Len(JobsFor(jobs', e)) = Occurrences(e, last'.entity_ids)
              /\ \A i \in DOMAIN JobsFor(jobs', e) : JobsFor(jobs', e)[i] =
                    Put(players'[e].data, ATTR_MEDIA_CONTENT_ID, Head(requested'[e]))
        /\ FromPending(e)
    ]_vars

C19_Witness ==
    \E e \in DOMAIN players :
        /\ last.op = "async_play_media"
        /\ last.entity_ids = <<e, e>>
        /\ players[e].start_time > 0
        /\ players[e].state = STATE_IDLE
        /\ Len(jobs) = 2
        /\ players[e].media_ids # <<>>

\* C20: every command a player dispatches names the entity of that player
\* and no other: a play request dispatches one command to each entity it
\* names, in their order, an event dispatches to the entity of the event
\* only, and every registered entity has got, of its own list, the ids that
\* are no longer pending.
C20_OwnEntityOnly ==
    /\ \A e \in DOMAIN players :
        /\ players[e].data[ATTR_ENTITY_ID] = e
        /\ sent[e] \o players[e].media_ids = requested[e]
    /\ last.op = "async_play_media" =>
            [i \in DOMAIN jobs |-> jobs[i][ATTR_ENTITY_ID]] = last.entity_ids
    /\ last.op = "async_state_changed" =>
            \A i \in DOMAIN jobs : jobs[i][ATTR_ENTITY_ID] = last.entity_id

C20_Witness ==
    \E a \in DOMAIN players, b \in DOMAIN players :
        /\ a # b
        /\ LastEvent(a, STATE_IDLE)
        /\ Len(jobs) = 1
        /\ jobs[1][ATTR_ENTITY_ID] = a
        /\ Len(sent[a]) = 2
        /\ Len(sent[b]) = 1
        /\ players[b].media_ids # <<>>

====
